---- MODULE Spec2Model ----
(***************************************************************************)
(* A model of the query evaluator of src/ccyq.py: parse_query, parse_key   *)
(* and apply_query.  Text is a sequence of one-character strings.  A       *)
(* document node is a record [t, v]: t is the Python type of the node and  *)
(* v its payload.  A raised exception is the node Raise(kind): it          *)
(* propagates through every caller, as an uncaught Python exception does.  *)
(* The keys of a dict are texts (an integer subscript of a dict is then a   *)
(* KeyError), the only whitespace a text holds is the space, and no text    *)
(* holds a newline (where Python's $ would also match before it).           *)
(***************************************************************************)
EXTENDS Integers, Sequences, FiniteSets, TLC

VARIABLES data, query, result, pc

vars == <<data, query, result, pc>>

-----------------------------------------------------------------------------
(* Document nodes (yaml.safe_load gives dict, list, int, str, None).        *)

Dict(f) == [t |-> "dict", v |-> f]
List(s) == [t |-> "list", v |-> s]
IntV(n) == [t |-> "int", v |-> n]
StrV(s) == [t |-> "str", v |-> s]
None == [t |-> "None", v |-> 0]
Raise(kind) == [t |-> "raise", v |-> kind]

IsRaise(r) == r.t = "raise"

\* The exceptions apply_query and parse_key raise, by type and message.
InvalidQuery == Raise("ValueError: Invalid query expression")
MissingBracket == Raise("ValueError: Malformed key - missing bracket")
WrongOrder == Raise("ValueError: Malformed key - brackets in wrong order")
EmptyKeyName == Raise("ValueError: Malformed key - empty key name")
IndexNotDigit == Raise("ValueError: Index should be a digit")
KeyNotFound == Raise("KeyError: Key not found")
CannotIterate == Raise("TypeError: Cannot iterate over")
CannotIndex == Raise("TypeError: Cannot index with key")
NotSubscriptable == Raise("TypeError: object is not subscriptable")
IndexOutOfRange == Raise("IndexError: index out of range")
SubscriptKeyError == Raise("KeyError: integer subscript of a dict")

-----------------------------------------------------------------------------
(* Text helpers.                                                            *)

Letters ==
  {"a", "b", "c", "d", "e", "f", "g", "h", "i", "j", "k", "l", "m",
   "n", "o", "p", "q", "r", "s", "t", "u", "v", "w", "x", "y", "z",
   "A", "B", "C", "D", "E", "F", "G", "H", "I", "J", "K", "L", "M",
   "N", "O", "P", "Q", "R", "S", "T", "U", "V", "W", "X", "Y", "Z"}

DigitChars == {"0", "1", "2", "3", "4", "5", "6", "7", "8", "9"}

IdentStart == Letters \cup {"_"}

IdentChar == IdentStart \cup DigitChars

Contains(s, c) == \E i \in 1..Len(s) : s[i] = c

\* str.index(c): the first position of c (1-based), 0 when absent.
FirstIndex(s, c) ==
  IF Contains(s, c)
  THEN CHOOSE i \in 1..Len(s) : s[i] = c /\ \A j \in 1..(i - 1) : s[j] # c
  ELSE 0

\* s[from..to] (1-based, inclusive), empty when from > to.
Slice(s, from, to) == IF from > to THEN <<>> ELSE SubSeq(s, from, to)

EndsWith(s, c) == Len(s) > 0 /\ s[Len(s)] = c

RECURSIVE LStrip(_, _)
LStrip(s, cs) ==
  IF Len(s) > 0 /\ s[1] \in cs THEN LStrip(Tail(s), cs) ELSE s

RECURSIVE RStrip(_, _)
RStrip(s, cs) ==
  IF Len(s) > 0 /\ s[Len(s)] \in cs
  THEN RStrip(SubSeq(s, 1, Len(s) - 1), cs)
  ELSE s

\* str.strip() over the whitespace the model's texts can hold.
Strip(s) == RStrip(LStrip(s, {" "}), {" "})

\* str.split("|").
RECURSIVE Split(_, _)
Split(s, c) ==
  LET i == FirstIndex(s, c)
  IN IF i = 0
     THEN <<s>>
     ELSE <<Slice(s, 1, i - 1)>> \o Split(Slice(s, i + 1, Len(s)), c)

-----------------------------------------------------------------------------
(* parse_query: the four regular expressions, tried in order.               *)

\* The text a pattern must match once its final \?? has taken a trailing ?.
Body(q) == IF EndsWith(q, "?") THEN Slice(q, 1, Len(q) - 1) ELSE q

\* ^\.\[Q([^Q]+)Q\]\??$ for a quote character Q: the captured key, or <<>>.
QuotedKey(q, Q) ==
  LET b == Body(q)
      k == Slice(b, 4, Len(b) - 2)
  IN IF /\ Len(b) >= 6
        /\ b[1] = "." /\ b[2] = "[" /\ b[3] = Q
        /\ b[Len(b) - 1] = Q /\ b[Len(b)] = "]"
        /\ ~Contains(k, Q)
     THEN k
     ELSE <<>>

\* ^\.\[([^\]]+)\]\??$ : the captured key, or <<>>.
BracketKey(q) ==
  LET b == Body(q)
      k == Slice(b, 3, Len(b) - 1)
  IN IF /\ Len(b) >= 4
        /\ b[1] = "." /\ b[2] = "["
        /\ b[Len(b)] = "]"
        /\ ~Contains(k, "]")
     THEN k
     ELSE <<>>

\* The position after the identifier [a-zA-Z_][a-zA-Z0-9_]* at i, 0 if none.
RECURSIVE IdentRest(_, _)
IdentRest(s, i) ==
  IF i <= Len(s) /\ s[i] \in IdentChar THEN IdentRest(s, i + 1) ELSE i

IdentEnd(s, i) ==
  IF i <= Len(s) /\ s[i] \in IdentStart THEN IdentRest(s, i + 1) ELSE 0

\* The position after (?:\[[^\]]*\])* at i.
RECURSIVE BracketsEnd(_, _)
BracketsEnd(s, i) ==
  IF i <= Len(s) /\ s[i] = "["
  THEN LET j == FirstIndex(Slice(s, i + 1, Len(s)), "]")
       IN IF j = 0 THEN i ELSE BracketsEnd(s, i + j + 1)
  ELSE i

\* The position after (?:\.[a-zA-Z_][a-zA-Z0-9_]*)* at i.
RECURSIVE DotIdentsEnd(_, _)
DotIdentsEnd(s, i) ==
  IF i <= Len(s) /\ s[i] = "." /\ IdentEnd(s, i + 1) # 0
  THEN DotIdentsEnd(s, IdentEnd(s, i + 1))
  ELSE i

\* ^\.(ident(?:\[[^\]]*\])*(?:\.ident)*)\??$ : the captured key, or <<>>.
ChainKey(q) ==
  LET b == Body(q)
      e == IdentEnd(b, 2)
  IN IF /\ Len(b) >= 2
        /\ b[1] = "."
        /\ e # 0
        /\ DotIdentsEnd(b, BracketsEnd(b, e)) = Len(b) + 1
     THEN Slice(b, 2, Len(b))
     ELSE <<>>

\* The key of the first pattern that matches; every capture is non-empty,
\* so <<>> stands for "this pattern does not match".
MatchedKey(q) ==
  IF QuotedKey(q, "\"") # <<>> THEN QuotedKey(q, "\"")
  ELSE IF QuotedKey(q, "'") # <<>> THEN QuotedKey(q, "'")
  ELSE IF BracketKey(q) # <<>> THEN BracketKey(q)
  ELSE ChainKey(q)

\* parse_query with the optional flag never set.
parse_query_NeverOptional(q) ==
  IF MatchedKey(q) # <<>>
  THEN [found |-> TRUE, key |-> MatchedKey(q), optional |-> FALSE]
  ELSE [found |-> FALSE, key |-> <<>>, optional |-> FALSE]

\* (key, optional); found = FALSE is the return of (None, False).
parse_query(q) ==
  IF MatchedKey(q) # <<>>
  THEN [found |-> TRUE, key |-> MatchedKey(q), optional |-> EndsWith(q, "?")]
  ELSE [found |-> FALSE, key |-> <<>>, optional |-> FALSE]

-----------------------------------------------------------------------------
(* parse_key: (key_name, member_index, remaining_key), or an exception.     *)

DigitValue(c) ==
  CASE c = "0" -> 0 [] c = "1" -> 1 [] c = "2" -> 2 [] c = "3" -> 3
    [] c = "4" -> 4 [] c = "5" -> 5 [] c = "6" -> 6 [] c = "7" -> 7
    [] c = "8" -> 8 [] c = "9" -> 9 [] OTHER -> 0

\* The digits of an int() literal once its sign is taken: decimal digits,
\* single underscores allowed between two digits.
IsDigits(u) ==
  /\ Len(u) > 0
  /\ \A i \in 1..Len(u) : u[i] \in DigitChars \cup {"_"}
  /\ u[1] # "_" /\ u[Len(u)] # "_"
  /\ \A i \in 1..(Len(u) - 1) : ~(u[i] = "_" /\ u[i + 1] = "_")

RECURSIVE DigitsValue(_)
DigitsValue(u) ==
  IF Len(u) = 0 THEN 0
  ELSE IF u[Len(u)] = "_" THEN DigitsValue(SubSeq(u, 1, Len(u) - 1))
  ELSE 10 * DigitsValue(SubSeq(u, 1, Len(u) - 1)) + DigitValue(u[Len(u)])

Unsigned(s) ==
  LET b == Strip(s)
  IN IF Len(b) > 0 /\ b[1] \in {"+", "-"} THEN Tail(b) ELSE b

\* int(text) succeeds: surrounding whitespace, one optional sign, digits.
IsIntText(s) == IsDigits(Unsigned(s))

\* int(text), for a text int() accepts.
IntOf(s) ==
  LET b == Strip(s)
  IN IF b[1] = "-" THEN 0 - DigitsValue(Unsigned(s))
     ELSE DigitsValue(Unsigned(s))

\* member_index: an int, "iterate" or None.
Index(n) == [kind |-> "int", n |-> n]
Iterate == [kind |-> "iterate", n |-> 0]
NoIndex == [kind |-> "None", n |-> 0]

Parsed(key_v, member_index, remaining) ==
  [raise |-> None, key_v |-> key_v, member_index |-> member_index,
   remaining |-> remaining]

Failed(exc) ==
  [raise |-> exc, key_v |-> <<>>, member_index |-> NoIndex, remaining |-> <<>>]

parse_key(key) ==
  IF Contains(key, "[") \/ Contains(key, "]")
  THEN IF ~(Contains(key, "[") /\ Contains(key, "]"))
       THEN Failed(MissingBracket)
       ELSE LET open_bracket == FirstIndex(key, "[")
                close_bracket == FirstIndex(key, "]")
                key_v == Slice(key, 1, open_bracket - 1)
                memb_index_str == Slice(key, open_bracket + 1, close_bracket - 1)
                remaining == Slice(key, close_bracket + 1, Len(key))
            IN IF open_bracket >= close_bracket
               THEN Failed(WrongOrder)
               ELSE IF memb_index_str = <<>>
               THEN Parsed(key_v, Iterate, remaining)
               ELSE IF ~IsIntText(memb_index_str)
               THEN Failed(IndexNotDigit)
               ELSE IF key_v = <<>>
               THEN Failed(EmptyKeyName)
               ELSE Parsed(key_v, Index(IntOf(memb_index_str)), remaining)
  ELSE Parsed(key, NoIndex, <<>>)

-----------------------------------------------------------------------------
(* apply_query.                                                             *)

\* value[member_index] for an int member_index, by the type of value.
Subscript(value, n) ==
  IF value.t \in {"list", "str"}
  THEN LET len == Len(value.v)
           i == IF n < 0 THEN len + n + 1 ELSE n + 1
       IN IF i < 1 \/ i > len
          THEN IndexOutOfRange
          ELSE IF value.t = "list" THEN value.v[i] ELSE StrV(<<value.v[i]>>)
  ELSE IF value.t = "dict"
  THEN SubscriptKeyError
  ELSE NotSubscriptable

\* A list built by a loop of calls: the first call that raises ends the loop.
Collected(rs) ==
  IF \E i \in 1..Len(rs) : IsRaise(rs[i])
  THEN rs[CHOOSE i \in 1..Len(rs) :
            IsRaise(rs[i]) /\ \A j \in 1..(i - 1) : ~IsRaise(rs[j])]
  ELSE List(rs)

\* "." + remaining.lstrip(".")
SuffixQuery(remaining) == <<".">> \o LStrip(remaining, {"."})

\* filters.index(filter_expr), 0-based as in the source.
FilterIndex(filters, filter_expr) ==
  (CHOOSE i \in 1..Len(filters) :
     filters[i] = filter_expr /\ \A j \in 1..(i - 1) : filters[j] # filter_expr) - 1

\* filters[from:] for a 0-based from.
FiltersFrom(filters, from) == Slice(filters, from + 1, Len(filters))

Filters(q) ==
  LET parts == Split(q, "|")
  IN [i \in 1..Len(parts) |-> Strip(parts[i])]

RECURSIVE apply_query(_, _)
RECURSIVE ApplyPath(_, _)
RECURSIVE ApplyFilters(_, _, _)
RECURSIVE ApplyRemaining(_, _)

\* ApplyEach with the results collected in reverse order.
ApplyEach_Reversed(items, q) ==
  Collected([i \in 1..Len(items) |->
               apply_query(items[Len(items) + 1 - i], q)])

\* for item in items: results.append(apply_query(item, q))
ApplyEach(items, q) ==
  Collected([i \in 1..Len(items) |-> apply_query(items[i], q)])

\* The inner loop of the broadcast: the remaining filters, one after the
\* other, on one item.
ApplyRemaining(item_result, remaining_filters) ==
  IF remaining_filters = <<>> THEN item_result
  ELSE LET r == apply_query(item_result, Head(remaining_filters))
       IN IF IsRaise(r) THEN r
          ELSE ApplyRemaining(r, Tail(remaining_filters))

\* The broadcast branch taken when a filter's result is a list.
Broadcast(items, remaining_filters) ==
  Collected([i \in 1..Len(items) |->
               ApplyRemaining(items[i], remaining_filters)])

\* The loop over filters, from the i-th (1-based) with result so far.
ApplyFilters(res, filters, i) ==
  IF i > Len(filters) THEN res
  ELSE LET r == apply_query(res, filters[i])
           at == FilterIndex(filters, filters[i])
       IN IF IsRaise(r) THEN r
          ELSE IF r.t = "list" /\ at < Len(filters) - 1
          THEN Broadcast(r.v, FiltersFrom(filters, at + 1))
          ELSE ApplyFilters(r, filters, i + 1)

\* MissingKey with the raise forgotten.
MissingKey_Silent(optional) == None

\* The key is not in the dict: raise unless optional, else fall to return None.
MissingKey(optional) == IF ~optional THEN KeyNotFound ELSE None

\* The dict branch, once parse_key has returned.
ApplyKey(d, k, optional) ==
  IF k.key_v \in DOMAIN d.v
  THEN LET value == d.v[k.key_v]
       IN IF k.member_index.kind = "iterate"
          THEN IF value.t # "list"
               THEN IF ~optional THEN CannotIterate ELSE None
               ELSE IF k.remaining # <<>>
               THEN ApplyEach(value.v, SuffixQuery(k.remaining))
               ELSE value
          ELSE IF k.member_index.kind = "int"
          THEN LET r == Subscript(value, k.member_index.n)
               IN IF IsRaise(r) THEN r
                  ELSE IF k.remaining # <<>>
                  THEN apply_query(r, SuffixQuery(k.remaining))
                  ELSE r
          ELSE value
  ELSE MissingKey(optional)

\* The branch for a list and an empty key.
ApplyBareIterate(d, key) ==
  LET k == IF Contains(key, "[") THEN parse_key(key)
           ELSE Parsed(<<>>, NoIndex, <<>>)
  IN IF IsRaise(k.raise) THEN k.raise
     ELSE IF k.member_index.kind = "iterate"
     THEN IF k.remaining # <<>>
          THEN ApplyEach(d.v, SuffixQuery(k.remaining))
          ELSE d
     ELSE None

\* apply_query from the call of parse_query on (a query with no pipe).
ApplyPath(d, q) ==
  LET p == parse_query(q)
  IN IF ~p.found
     THEN IF ~p.optional THEN InvalidQuery ELSE None
     ELSE IF d.t = "dict"
     THEN LET k == parse_key(p.key)
          IN IF IsRaise(k.raise) THEN k.raise
             ELSE ApplyKey(d, k, p.optional)
     ELSE IF d.t = "list" /\ p.key = <<>>
     THEN ApplyBareIterate(d, p.key)
     ELSE IF ~p.optional THEN CannotIndex ELSE None

apply_query(d, q) ==
  IF q = <<>> \/ q = <<".">>
  THEN d
  ELSE IF Contains(q, "|")
  THEN ApplyFilters(d, Filters(q), 1)
  ELSE ApplyPath(d, q)

-----------------------------------------------------------------------------
(* The inputs: documents and query texts, drawn from bounded sets.          *)

\* The longest list a document holds.
MaxLen == 2

\* The most stages a pipeline has.
MaxStages == 3

a == <<"a">>
b == <<"b">>
c == <<"c">>
f == <<"f">>

\* The sequences over S of length at most n.
SeqsUpTo(S, n) == UNION {[1..m -> S] : m \in 0..n}

RECURSIVE Concat(_)
Concat(parts) ==
  IF parts = <<>> THEN <<>> ELSE Head(parts) \o Concat(Tail(parts))

\* sep.join(parts)
RECURSIVE Join(_, _)
Join(parts, sep) ==
  IF Len(parts) = 1 THEN parts[1]
  ELSE parts[1] \o sep \o Join(Tail(parts), sep)

Elems ==
  {IntV(1), Dict(f :> IntV(1)), Dict(f :> IntV(2)), Dict(b :> IntV(3)),
   List(<<IntV(2)>>)}

Lists == {List(s) : s \in SeqsUpTo(Elems, MaxLen)}

Vals ==
  {IntV(5), StrV(<<"x", "y">>), None, Dict(<<>>), Dict(b :> IntV(5)),
   Dict(b :> Dict(f :> IntV(1)))} \cup Lists

PathDocs ==
  Vals \cup {Dict(a :> v) : v \in Vals}
       \cup {Dict((a :> Dict(b :> IntV(5))) @@ (<<"a", ".", "b">> :> IntV(7))),
             Dict((a :> List(<<IntV(1)>>)) @@ (b :> List(<<Dict(f :> None)>>)))}

Heads == {<<".", "a">>, <<".", "b">>, <<"a">>, <<>>}

Brackets ==
  {<<>>, <<"[", "]">>, <<"[", "0", "]">>, <<"[", "1", "]">>,
   <<"[", "-", "1", "]">>, <<"[", "7", "]">>, <<"[", "x", "]">>, <<"[">>}

Suffixes == {<<>>, <<".", "b">>, <<".", "f">>}

Opts == {<<>>, <<"?">>}

ExtraStages ==
  {<<".">>, <<".", "_", "a", "1">>, <<".", "a", ".", "b", ".", "f">>,
   <<".", "[", "\"", "a", "\"", "]">>, <<".", "[", "'", "a", "'", "]">>,
   <<".", "[", "a", "]">>, <<".", "[", "]">>,
   <<".", "[", "\"", "a", "[", "\"", "]">>,
   <<".", "[", "\"", "a", "[", "\"", "]", "?">>,
   <<".", "[", "\"", "]", "a", "[", "\"", "]">>,
   <<".", "[", "\"", "]", "a", "[", "\"", "]", "?">>,
   <<".", "[", "\"", "[", "0", "]", "\"", "]">>,
   <<".", "[", "\"", "[", "0", "]", "\"", "]", "?">>,
   <<".", "a", "[", " ", "1", "]">>, <<".", "a", "[", "+", "1", "]">>}

Stages ==
  {Concat(<<h, k, s, o>>) :
     h \in Heads, k \in Brackets, s \in Suffixes, o \in Opts} \cup ExtraStages

PipeDocs ==
  {Dict(a :> Dict(a :> List(<<IntV(1), IntV(2)>>))),
   Dict(a :> List(<<Dict(b :> List(<<Dict(c :> IntV(1)), Dict(c :> IntV(2))>>)),
                    Dict(b :> List(<<>>))>>)),
   Dict(a :> Dict((b :> List(<<Dict(c :> IntV(1))>>)) @@ (c :> IntV(3)))),
   Dict(a :> List(<<Dict(c :> IntV(1)), Dict(c :> IntV(2))>>)),
   Dict(a :> Dict(a :> Dict((a :> IntV(1)) @@ (c :> IntV(2))))),
   Dict(a :> List(<<Dict(a :> List(<<Dict(c :> IntV(1))>>))>>)),
   List(<<Dict(a :> IntV(1)), Dict(c :> IntV(2))>>),
   IntV(5)}

PipeStages ==
  {<<".", "a">>, <<".", "a", "[", "]">>, <<".", "b", "[", "]">>,
   <<".", "c">>, <<".", "b", "?">>, <<".">>}

Separators == {<<"|">>, <<" ", "|", " ">>}

Pipelines ==
  {Join(p, sep) :
     p \in UNION {[1..n -> PipeStages] : n \in 2..MaxStages},
     sep \in Separators}

Pending == [t |-> "pending", v |-> 0]

-----------------------------------------------------------------------------
(* One call of apply_query(data, query).                                    *)

Init ==
  /\ \/ data \in PathDocs /\ query \in Stages
     \/ data \in PipeDocs /\ query \in Pipelines
  /\ result = Pending
  /\ pc = "start"

Evaluate ==
  /\ pc = "start"
  /\ result' = apply_query(data, query)
  /\ pc' = "done"
  /\ UNCHANGED <<data, query>>

Next == Evaluate

Spec == Init /\ [][Next]_vars

-----------------------------------------------------------------------------
(* Vocabulary of the properties.                                            *)

Done == pc = "done"

IsIdentifier(k) ==
  /\ Len(k) > 0
  /\ k[1] \in IdentStart
  /\ \A i \in 1..Len(k) : k[i] \in IdentChar

\* The query without its trailing ? mark, if it has one.
Unmarked(q) == IF EndsWith(q, "?") THEN SubSeq(q, 1, Len(q) - 1) ELSE q

IsMarked(q) == EndsWith(q, "?")

\* The stage texts of a query: the pipe-separated parts, or the query itself.
StageTexts(q) == IF Contains(q, "|") THEN Filters(q) ELSE <<q>>

\* .k or .k? for an identifier k.
IsKeyQuery(q) ==
  /\ Len(Unmarked(q)) >= 2
  /\ q[1] = "."
  /\ IsIdentifier(Tail(Unmarked(q)))

KeyName(q) == Tail(Unmarked(q))

\* No node of the document is null.
RECURSIVE NoNull(_)
NoNull(n) ==
  /\ n.t # "None"
  /\ n.t = "list" => \A i \in 1..Len(n.v) : NoNull(n.v[i])
  /\ n.t = "dict" => \A k \in DOMAIN n.v : NoNull(n.v[k])

\* m[k1][k2]...[kn], or Pending when a key along the path is absent.
RECURSIVE Descend(_, _)
Descend(d, keys) ==
  IF keys = <<>> THEN d
  ELSE IF d.t = "dict" /\ Head(keys) \in DOMAIN d.v
  THEN Descend(d.v[Head(keys)], Tail(keys))
  ELSE Pending

\* sn applied to (... s2 applied to (s1 applied to d)).
RECURSIVE Sequential(_, _)
Sequential(d, stages) ==
  IF stages = <<>> THEN d
  ELSE LET r == apply_query(d, Head(stages))
       IN IF IsRaise(r) THEN r ELSE Sequential(r, Tail(stages))

\* None of the stages but the last yields a list when they run in sequence.
RECURSIVE NoListBeforeLast(_, _)
NoListBeforeLast(d, stages) ==
  IF Len(stages) <= 1 THEN TRUE
  ELSE LET r == apply_query(d, Head(stages))
       IN IF IsRaise(r) THEN TRUE
          ELSE r.t # "list" /\ NoListBeforeLast(r, Tail(stages))

\* One level of broadcasting per list-producing stage: the stages after a
\* stage that yields a list run on each element of that list.
RECURSIVE Broadcasting(_, _)
Broadcasting(d, stages) ==
  IF stages = <<>> THEN d
  ELSE LET r == apply_query(d, Head(stages))
       IN IF IsRaise(r) THEN r
          ELSE IF r.t = "list" /\ Tail(stages) # <<>>
          THEN Collected([i \in 1..Len(r.v) |->
                            Broadcasting(r.v[i], Tail(stages))])
          ELSE Broadcasting(r, Tail(stages))

NoRepeatedStage(stages) ==
  \A i, j \in 1..Len(stages) : i # j => stages[i] # stages[j]

-----------------------------------------------------------------------------
(* C1: on a mapping m, .k returns m[k] when the identifier k is present     *)
(* and raises the key-not-found error when it is absent; .k? returns m[k]   *)
(* when k is present and null when it is absent.                            *)
C1_SingleKeyLookup ==
  Done /\ data.t = "dict" /\ IsKeyQuery(query) =>
    IF KeyName(query) \in DOMAIN data.v
    THEN result = data.v[KeyName(query)]
    ELSE IF IsMarked(query) THEN result = None ELSE result = KeyNotFound

C1_Witness ==
  /\ Done /\ data.t = "dict" /\ IsKeyQuery(query) /\ IsMarked(query)
  /\ KeyName(query) \notin DOMAIN data.v
  /\ DOMAIN data.v # {}
  /\ result = None

(* C2: a chain .k1.k2...kn of identifiers returns m[k1][k2]...[kn] when     *)
(* every key along the path is present.                                     *)
C2_DottedPathDescends ==
  Done /\ Len(query) >= 2 /\ query[1] = "." /\ ~IsMarked(query) =>
    LET keys == Split(Tail(query), ".")
    IN (/\ Len(keys) >= 2
        /\ \A i \in 1..Len(keys) : IsIdentifier(keys[i])
        /\ Descend(data, keys) # Pending)
       => result = Descend(data, keys)

(* C3: .k[] on a mapping whose key k holds a sequence returns that sequence *)
(* unchanged; .k[].g, when every element is a mapping holding g, returns    *)
(* the list of elem[g], one per element, in the original order.             *)
C3_IterateKey ==
  Done /\ data.t = "dict" =>
    \A k \in DOMAIN data.v :
      LET s == data.v[k]
          whole == <<".">> \o k \o <<"[", "]">>
          g == Slice(query, Len(whole) + 2, Len(query))
      IN IsIdentifier(k) /\ s.t = "list" =>
           /\ query = whole => result = s
           /\ (/\ query = whole \o <<".">> \o g
               /\ IsIdentifier(g)
               /\ \A i \in 1..Len(s.v) :
                    s.v[i].t = "dict" /\ g \in DOMAIN s.v[i].v)
              => result = List([i \in 1..Len(s.v) |-> s.v[i].v[g]])

C3_Witness ==
  /\ Done /\ data.t = "dict" /\ a \in DOMAIN data.v
  /\ query = <<".", "a", "[", "]", ".", "f">>
  /\ result.t = "list" /\ Len(result.v) >= 2
  /\ result.v[1] # result.v[2]
  /\ result = List([i \in 1..Len(data.v[a].v) |-> data.v[a].v[i].v[f]])

(* C4: in a pipeline s1 | ... | sn (n >= 2, repeated stage texts allowed)   *)
(* in which none of s1..s(n-1) yields a list, the result is sn applied to   *)
(* (... s2 applied to (s1 applied to the document)).                        *)
C4_PipeIsSequential ==
  Done /\ Contains(query, "|") /\ NoListBeforeLast(data, Filters(query)) =>
    result = Sequential(data, Filters(query))

(* C5: when an intermediate stage yields a list, exactly the stages after   *)
(* it are applied to each element, also for a list-producing stage inside   *)
(* an earlier broadcast, and the result is the list of per-element results  *)
(* in order.  Stated for pipelines whose stage texts are pairwise distinct. *)
C5_PipeBroadcasts ==
  (/\ Done /\ Contains(query, "|")
   /\ NoRepeatedStage(Filters(query))
   /\ ~NoListBeforeLast(data, Filters(query)))
  => result = Broadcasting(data, Filters(query))

(* C6: .k[N] on a mapping whose key k holds a sequence s returns s[N] when  *)
(* 0 <= N < len(s); for any other integer N it raises an out-of-range or    *)
(* invalid-index error, and with a trailing ? it returns null.              *)
C6_IntegerIndex ==
  Done /\ data.t = "dict" =>
    \A k \in DOMAIN data.v :
      LET s == data.v[k]
          u == Unmarked(query)
          head == <<".">> \o k \o <<"[">>
          inner == Slice(u, Len(head) + 1, Len(u) - 1)
      IN (/\ IsIdentifier(k) /\ s.t = "list"
          /\ u = head \o inner \o <<"]">>
          /\ Len(inner) > 0
          /\ \/ IsDigits(inner)
             \/ inner[1] = "-" /\ IsDigits(Tail(inner)))
         => IF 0 <= IntOf(inner) /\ IntOf(inner) < Len(s.v)
            THEN result = s.v[IntOf(inner) + 1]
            ELSE IF IsMarked(query) THEN result = None
            ELSE result \in {IndexOutOfRange, IndexNotDigit}

C8_NoMatch ==
  (/\ Done /\ query \notin {<<>>, <<".">>} /\ ~Contains(query, "|")
   /\ MatchedKey(query) = <<>>)
  => result = IF IsMarked(query) THEN None ELSE InvalidQuery

(* C9: a stage whose raw key is structurally broken raises a malformed-key  *)
(* or invalid-index error on a current value of any kind, with or without   *)
(* a trailing ?.                                                            *)
C9_StructuralErrorsAreHard ==
  (/\ Done /\ ~Contains(query, "|")
   /\ parse_query(query).found
   /\ IsRaise(parse_key(parse_query(query).key).raise))
  => result \in {MissingBracket, WrongOrder, EmptyKeyName, IndexNotDigit}

(* C10: on a sequence s, the stage [] returns s itself and the stage [].g   *)
(* returns the in-order list of .g evaluated on each element; neither       *)
(* raises the invalid-query error.                                          *)
C10_PureIteration ==
  Done /\ data.t = "list" /\ Len(query) >= 2 /\ SubSeq(query, 1, 2) = <<"[", "]">> =>
    LET suffix == Slice(query, 3, Len(query))
    IN /\ suffix = <<>> => result = data
       /\ (Len(suffix) >= 2 /\ suffix[1] = "." /\ IsIdentifier(Tail(suffix)))
          => result = Collected([i \in 1..Len(data.v) |->
                                   apply_query(data.v[i], suffix)])

====
